---- MODULE Spec2Model ----
(***************************************************************************)
(* s3backup/backups.py: BackupStore (list / upload / download / delete /   *)
(* _prune_bucket), Collection, StagingContext, the processlog decorator    *)
(* and BackupHandler (backup / restore / prune).                           *)
(*                                                                         *)
(* Every action is one whole call of a public method.  What the call did   *)
(* (log records, S3 client calls, filesystem calls, in program order) is   *)
(* kept in last.events; last.after says which call came right before it.   *)
(* When a call has returned or raised, only that summary of it is kept     *)
(* (Forget) and the next call starts.                                      *)
(* Filenames are sequences of characters so that Python's substring test   *)
(* `pattern in obj.filename` is computed, not assumed.                     *)
(***************************************************************************)
EXTENDS Integers, Sequences, FiniteSets, TLC

VARIABLES store, retainCfg, dirTree, tmpdirs, last

vars == <<store, retainCfg, dirTree, tmpdirs, last>>

\* ---------------------------------------------------------------- bounds
MaxObjs == 2
MaxTime == 2
MaxRetain == 1

\* ------------------------------------------------------------- constants
\* Python's None for the retain argument of BackupStore.__init__: a value
\* that is no retain count.
None == -99

\* BackupStore.LATEST
LATEST == "backups.latest"

\* The default category patterns of _prune_bucket.
deb == <<"d", "e", "b">>
targz == <<"t", "a", "r", ".", "g", "z">>
patterns == <<deb, targz>>

\* Keys that occur in the bucket.
a_deb == <<"a", ".", "d", "e", "b">>
b_targz == <<"b", ".", "t", "a", "r", ".", "g", "z">>
deb_targz == <<"d", "e", "b", ".", "t", "a", "r", ".", "g", "z">>
tmpx == <<"t", "m", "p", "x">>
tmpy == <<"t", "m", "p", "y">>

\* The base name of the handler's backupdir, and the '.tgz' of compress.
backupdir == <<"d", "e", "b">>
tgz == <<".", "t", "g", "z">>

Names == {a_deb, b_targz, deb_targz, tmpx}
RenameTo == {<<>>, deb_targz}
TmpNames == {tmpx, tmpy}

\* File trees of the backed-up directory: sets of <<relative path, bytes>>.
Tree1 == {<<"f", 1>>}
Tree2 == {<<"f", 2>>, <<"g", 1>>}
Trees == {Tree1, Tree2}

\* The external call a run makes fail (at most one per run), per method.
PruneFaults == {"none", "list_objects", "delete_objects_1", "delete_objects_2"}
UploadFaults == PruneFaults \cup {"upload_file"}
BackupFaults == UploadFaults \cup {"makedirs", "stage", "compress"}
DownloadFaults == {"none", "list_objects", "download_file"}
RestoreFaults == DownloadFaults \cup {"extract"}

\* ------------------------------------------------------------- helpers
\* `pattern in filename` on Python strings.
Contains(p, s) == \E i \in 1..(Len(s) - Len(p) + 1) : SubSeq(s, i, i + Len(p) - 1) = p

Keys(st) == {st[i].filename : i \in 1..Len(st)}

RECURSIVE SeqFilter(_, _)
SeqFilter(s, keep) == IF s = <<>> THEN <<>> ELSE (IF Head(s) \in keep THEN <<Head(s)>> ELSE <<>>) \o SeqFilter(Tail(s), keep)

\* Python's s[n:].
SliceFrom(s, n) == IF n >= 0 THEN SubSeq(s, (IF n > Len(s) THEN Len(s) ELSE n) + 1, Len(s)) ELSE SubSeq(s, (IF Len(s) + n < 0 THEN 0 ELSE Len(s) + n) + 1, Len(s))

\* What a call did: the log records and external calls in program order
\* (events), the batches handed to client.delete_objects in the same order
\* (deletes), the exception it raised (exc), and the listing a prune saw.
Outcome(st, evs, dels, x, listed, didList) == [store |-> st, events |-> evs, deletes |-> dels, exc |-> x, listed |-> listed, didList |-> didList]

NoPrune(st, evs, x) == Outcome(st, evs, <<>>, x, <<>>, FALSE)

\* ---------------------------------------------------------- Collection
filenames(objs) == [i \in 1..Len(objs) |-> objs[i].filename]

\* sorted(..., reverse=True) is stable: equal keys keep their listing order.
RECURSIVE InsertDesc(_, _)
InsertDesc(sorted, x) == IF sorted = <<>> THEN <<x>> ELSE IF Head(sorted).modified >= x.modified THEN <<Head(sorted)>> \o InsertDesc(Tail(sorted), x) ELSE <<x>> \o sorted

RECURSIVE InsertAsc(_, _)
InsertAsc(sorted, x) == IF sorted = <<>> THEN <<x>> ELSE IF Head(sorted).modified <= x.modified THEN <<Head(sorted)>> \o InsertAsc(Tail(sorted), x) ELSE <<x>> \o sorted

RECURSIVE SortWith(_, _, _)
SortWith(objs, acc, desc) == IF objs = <<>> THEN acc ELSE SortWith(Tail(objs), IF desc THEN InsertDesc(acc, Head(objs)) ELSE InsertAsc(acc, Head(objs)), desc)

ordered_ascending(objs) == SortWith(objs, <<>>, FALSE)

\* Collection.ordered(order_by='modified'), desc=True by default.
ordered(objs) == SortWith(objs, <<>>, TRUE)

\* --------------------------------------------------------- BackupStore
\* client.list_objects + list_objects: a failed call raises ClientError; an
\* empty prefix either has no "Contents" key in the response (KeyError at
\* raw["Contents"]) or an empty list, as the service answers.
list_objects(st, fault, emptyHasContents) ==
  IF fault = "list_objects" THEN [exc |-> "ClientError", objects |-> <<>>]
  ELSE IF st = <<>> /\ ~emptyHasContents THEN [exc |-> "KeyError", objects |-> <<>>]
  ELSE [exc |-> "none", objects |-> st]

\* client.delete_objects on the filenames of the collection.
delete(st, collection) == SeqFilter(st, {st[i] : i \in {j \in 1..Len(st) : st[j].filename \notin {collection[k].filename : k \in 1..Len(collection)}}})

matching_any(objects, pattern) == objects

\* [obj for obj in objects if pattern in obj.filename]
matching(objects, pattern) == SeqFilter(objects, {objects[i] : i \in {j \in 1..Len(objects) : Contains(pattern, objects[j].filename)}})

overflow_last_only(objects_by_pattern, retain) == SliceFrom(objects_by_pattern, Len(objects_by_pattern) - 1)

\* to_prune = objects_by_pattern[retain:]
overflow(objects_by_pattern, retain) == SliceFrom(objects_by_pattern, retain)

DeleteFault(n) == IF n = 1 THEN "delete_objects_1" ELSE "delete_objects_2"

\* The `for pattern in patterns` loop of _prune_bucket, from pattern i on.
RECURSIVE PruneLoop(_, _, _, _, _, _)
PruneLoop(st, objects, retain, i, fault, dels) ==
  IF i > Len(patterns) THEN [store |-> st, deletes |-> dels, exc |-> "none"]
  ELSE LET objects_by_pattern == matching(objects, patterns[i]) IN
       IF Len(objects_by_pattern) > retain
       THEN LET to_prune == overflow(objects_by_pattern, retain)
                call == [pat |-> patterns[i], keys |-> filenames(to_prune)]
            IN IF fault = DeleteFault(Len(dels) + 1)
               THEN [store |-> st, deletes |-> Append(dels, call), exc |-> "ClientError"]
               ELSE PruneLoop(delete(st, to_prune), objects, retain, i + 1, fault, Append(dels, call))
       ELSE PruneLoop(st, objects, retain, i + 1, fault, dels)

_prune_bucket(st, retain, fault, emptyHasContents) ==
  LET l == list_objects(st, fault, emptyHasContents) IN
  IF l.exc # "none" THEN NoPrune(st, <<"list_objects">>, l.exc)
  ELSE LET objects == ordered(l.objects)
           r == IF Len(objects) > 0 THEN PruneLoop(st, objects, retain, 1, fault, <<>>) ELSE [store |-> st, deletes |-> <<>>, exc |-> "none"]
       IN Outcome(r.store, <<"list_objects">> \o [i \in 1..Len(r.deletes) |-> "delete_objects"], r.deletes, r.exc, l.objects, TRUE)

\* client.upload_file: a new key enters the listing at position pos, an
\* existing key is overwritten where it stands.
put(st, obj, pos) ==
  IF obj.filename \in Keys(st)
  THEN [i \in 1..Len(st) |-> IF st[i].filename = obj.filename THEN obj ELSE st[i]]
  ELSE SubSeq(st, 1, pos - 1) \o <<obj>> \o SubSeq(st, pos, Len(st))

\* `if self._retain:`
retain_configured(retain) == retain # None /\ retain # 0

upload_prune_before_transfer(st, obj, pos, retain, fault, emptyHasContents) ==
  LET p == IF retain_configured(retain) THEN _prune_bucket(st, retain, fault, emptyHasContents) ELSE NoPrune(st, <<>>, "none")
  IN IF p.exc # "none" THEN p
     ELSE IF fault = "upload_file" THEN [p EXCEPT !.events = p.events \o <<"upload_file">>, !.exc = "S3UploadFailedError"]
     ELSE [p EXCEPT !.store = put(p.store, obj, pos), !.events = p.events \o <<"upload_file">>]

\* BackupStore.upload
upload(st, obj, pos, retain, fault, emptyHasContents) ==
  IF fault = "upload_file" THEN NoPrune(st, <<"upload_file">>, "S3UploadFailedError")
  ELSE IF retain_configured(retain)
  THEN LET p == _prune_bucket(put(st, obj, pos), retain, fault, emptyHasContents)
       IN [p EXCEPT !.events = <<"upload_file">> \o p.events]
  ELSE NoPrune(put(st, obj, pos), <<"upload_file">>, "none")

ObjectAt(st, key) == st[CHOOSE i \in 1..Len(st) : st[i].filename = key]

\* BackupStore.download.  `written` is the local file name download_file
\* wrote under localpath, <<>> when it wrote none.
download(st, target, as_filename, fault, emptyHasContents) ==
  LET l == list_objects(st, fault, emptyHasContents)
      sel == IF target = LATEST
             THEN IF l.exc # "none" THEN [exc |-> l.exc, filename |-> <<>>, events |-> <<"list_objects">>]
                  ELSE IF Len(l.objects) = 0 THEN [exc |-> "EnvironmentError", filename |-> <<>>, events |-> <<"list_objects">>]
                  ELSE [exc |-> "none", filename |-> filenames(l.objects)[Len(l.objects)], events |-> <<"list_objects">>]
             ELSE IF as_filename # <<>> THEN [exc |-> "none", filename |-> as_filename, events |-> <<>>]
             ELSE [exc |-> "ValueError", filename |-> <<>>, events |-> <<>>]
  IN IF sel.exc # "none" THEN [exc |-> sel.exc, events |-> sel.events, fetched |-> <<>>, written |-> <<>>, body |-> {}]
     ELSE IF fault = "download_file" \/ sel.filename \notin Keys(st)
     THEN [exc |-> "ClientError", events |-> sel.events \o <<"download_file">>, fetched |-> <<>>, written |-> <<>>, body |-> {}]
     ELSE [exc |-> "none", events |-> sel.events \o <<"download_file">>, fetched |-> sel.filename, written |-> sel.filename, body |-> ObjectAt(st, sel.filename).body]

\* ------------------------------------------------------ StagingContext
\* __init__ / _initialize: os.makedirs of the randomly named workspace; it
\* raises when the call fails or the name is taken.
StagingContext_init(dirs, ws, fault) ==
  IF fault = "makedirs" \/ ws \in dirs
  THEN [exc |-> "OSError", dirs |-> dirs, created |-> FALSE]
  ELSE [exc |-> "none", dirs |-> dirs \cup {ws}, created |-> TRUE]

StagingContext_exit_noop(dirs, ws) == dirs

\* __exit__: shutil.rmtree(self.tmpdir)
StagingContext_exit(dirs, ws) == dirs \ {ws}

\* compress: the archive's file name, which stage.name() then returns.
compress(target_name, rename_to) == IF rename_to # <<>> THEN rename_to ELSE target_name \o tgz

\* ------------------------------------------------------------ processlog
\* inner(): logger.info(start); the body; logger.error("msg: class: e") and
\* raise, or logger.info(success).  `logged` is the class name in the error
\* record.
processlog(r) == [events |-> <<"info_start">> \o r.events \o <<IF r.exc = "none" THEN "info_success" ELSE "error">>, exc |-> r.exc, logged |-> IF r.exc = "none" THEN "" ELSE r.exc]

\* -------------------------------------------------------- BackupHandler
\* `with StagingContext() as stage:` around a body.
Staged(dirs, ws, fault, body) ==
  LET c == StagingContext_init(dirs, ws, fault) IN
  IF c.exc # "none"
  THEN [store |-> body.before, tmpdirs |-> dirs, events |-> <<"makedirs">>, deletes |-> <<>>, exc |-> c.exc, created |-> FALSE]
  ELSE [store |-> body.store, tmpdirs |-> StagingContext_exit(c.dirs, ws), events |-> <<"makedirs">> \o body.events \o <<"rmtree">>, deletes |-> body.deletes, exc |-> body.exc, created |-> TRUE]

\* The undecorated body of BackupHandler.backup.
backup(st, dirs, tree, rename_to, ws, ts, pos, retain, fault, emptyHasContents) ==
  LET obj == [filename |-> compress(backupdir, rename_to), modified |-> ts, body |-> tree]
      u == upload(st, obj, pos, retain, fault, emptyHasContents)
      body == IF fault = "stage" THEN NoPrune(st, <<"stage">>, "IOError")
              ELSE IF fault = "compress" THEN NoPrune(st, <<"stage", "compress">>, "IOError")
              ELSE [u EXCEPT !.events = <<"stage", "compress">> \o u.events]
  IN Staged(dirs, ws, fault, [store |-> body.store, before |-> st, events |-> body.events, deletes |-> body.deletes, exc |-> body.exc])

\* BackupHandler.prune: it carries no processlog decorator.
prune(st, dirs, ws, retain, fault, emptyHasContents) ==
  LET body == _prune_bucket(st, retain, fault, emptyHasContents)
  IN Staged(dirs, ws, fault, [store |-> body.store, before |-> st, events |-> body.events, deletes |-> body.deletes, exc |-> body.exc])

\* tarfile.extractall into the directory: members overwrite, other files stay.
extractall(tree, members) == members \cup {p \in tree : \A q \in members : q[1] # p[1]}

\* The undecorated body of BackupHandler.restore, with extract.  f.name is
\* tmpname; download_file writes dirname(f.name)/<filename it resolved>, and
\* extract opens f.name, which is an empty file unless that is the same path.
restore(st, tree, tmpname, fault, emptyHasContents) ==
  LET d == download(st, LATEST, tmpname, fault, emptyHasContents)
      pre == <<"info_body", "mktemp">> \o d.events
  IN IF d.exc # "none"
     THEN [dirTree |-> tree, events |-> pre, exc |-> d.exc, fetched |-> <<>>, written |-> <<>>, read |-> <<>>]
     ELSE IF fault = "extract"
     THEN [dirTree |-> tree, events |-> pre \o <<"extract">>, exc |-> "IOError", fetched |-> d.fetched, written |-> d.written, read |-> tmpname]
     ELSE IF d.written # tmpname
     THEN [dirTree |-> tree, events |-> pre \o <<"extract">>, exc |-> "ReadError", fetched |-> d.fetched, written |-> d.written, read |-> tmpname]
     ELSE [dirTree |-> extractall(tree, d.body), events |-> pre \o <<"extract", "info_body">>, exc |-> "none", fetched |-> d.fetched, written |-> d.written, read |-> tmpname]

\* ---------------------------------------------------------------- state
Count(evs, e) == Cardinality({i \in 1..Len(evs) : evs[i] = e})

\* Errors of the transport or the filesystem, as opposed to the code's own.
Transport == {"ClientError", "S3UploadFailedError", "OSError", "IOError"}

Idle == [op |-> "init", retain |-> None, events |-> <<>>, deletes |-> <<>>, exc |-> "none", logged |-> "", listed |-> <<>>, didList |-> FALSE, ws |-> "", created |-> FALSE, fetched |-> <<>>, written |-> <<>>, read |-> <<>>, key |-> <<>>, tree |-> {}, after |-> ""]

\* No call is running: none was made yet, or the last one was summarised.
Ready == last.op \in {"init", "idle"}

\* What the next call's claims need of the call that just ended: a prune
\* that met no transport error (and whether it deleted anything), or a
\* backup that returned.
Summary ==
  IF last.op \in {"prune", "_prune_bucket"} /\ last.exc \notin Transport
  THEN IF Count(last.events, "delete_objects") > 0 THEN "prune_deleted" ELSE "prune"
  ELSE IF last.op = "backup" /\ last.exc = "none" THEN "backup"
  ELSE ""

\* The call right before a prune(retain): another prune(retain).
AfterPrune(retain) == IF last.after \in {"prune", "prune_deleted"} /\ last.retain = retain THEN last.after ELSE ""

\* The call right before a restore: a backup that returned.
AfterBackup == IF last.after = "backup" THEN "backup" ELSE ""

\* The retain argument of a prune: a count, or a negative integer, which the
\* code takes as it comes.
Retains == {-1} \cup (0..MaxRetain)

\* LastModified of an upload, as the service stamps it.
Stamps == 1..MaxTime

\* The service's clock at a backup: past every LastModified in the bucket,
\* until the model's last instant.
RECURSIVE Newest(_)
Newest(st) == IF st = <<>> THEN 0 ELSE IF Head(st).modified > Newest(Tail(st)) THEN Head(st).modified ELSE Newest(Tail(st))

Clock == IF Newest(store) < MaxTime THEN Newest(store) + 1 ELSE MaxTime

Room(key) == key \in Keys(store) \/ Len(store) < MaxObjs

Positions(key) == IF key \in Keys(store) THEN {1} ELSE 1..(Len(store) + 1)

\* The answers the service may give to a listing of this bucket.
Answers == IF store = <<>> THEN BOOLEAN ELSE {TRUE}

\* BackupHandler.from_file: a store without a retain count, or with one.
Init ==
  /\ store = <<>>
  /\ retainCfg \in {None, MaxRetain}
  /\ dirTree \in Trees
  /\ tmpdirs = {}
  /\ last = Idle

\* handler.backup(rename_to=...)
Backup ==
  /\ Ready
  /\ \E rename_to \in RenameTo, fault \in BackupFaults :
    \E pos \in Positions(compress(backupdir, rename_to)) :
      LET ws == "ws"
          b == backup(store, tmpdirs, dirTree, rename_to, ws, Clock, pos, retainCfg, fault, TRUE)
          r == processlog(b)
      IN
      /\ Room(compress(backupdir, rename_to))
      /\ store' = b.store
      /\ tmpdirs' = b.tmpdirs
      /\ last' = [Idle EXCEPT !.op = "backup", !.retain = retainCfg, !.events = r.events, !.exc = r.exc, !.logged = r.logged, !.ws = IF b.created THEN ws ELSE "", !.created = b.created, !.key = compress(backupdir, rename_to)]
      /\ UNCHANGED <<retainCfg, dirTree>>

\* handler.restore()
Restore ==
  /\ Ready
  /\ \E tmpname \in TmpNames, fault \in RestoreFaults, ehc \in Answers :
    LET b == restore(store, dirTree, tmpname, fault, ehc)
        r == processlog(b)
    IN
    /\ dirTree' = b.dirTree
    /\ last' = [Idle EXCEPT !.op = "restore", !.events = r.events, !.exc = r.exc, !.logged = r.logged, !.fetched = b.fetched, !.written = b.written, !.read = b.read, !.tree = dirTree, !.after = AfterBackup]
    /\ UNCHANGED <<store, retainCfg, tmpdirs>>

\* handler.prune(retain=...)
Prune ==
  /\ Ready
  /\ \E retain \in Retains, fault \in PruneFaults \cup {"makedirs"}, ehc \in Answers :
    LET ws == "ws"
        r == prune(store, tmpdirs, ws, retain, fault, ehc)
    IN
    /\ store' = r.store
    /\ tmpdirs' = r.tmpdirs
    /\ last' = [Idle EXCEPT !.op = "prune", !.retain = retain, !.events = r.events, !.deletes = r.deletes, !.exc = r.exc, !.ws = IF r.created THEN ws ELSE "", !.created = r.created, !.after = AfterPrune(retain)]
    /\ UNCHANGED <<retainCfg, dirTree>>

\* store.upload(localpath, target)
Upload ==
  /\ Ready
  /\ \E key \in Names, ts \in Stamps, fault \in UploadFaults :
    \E pos \in Positions(key) :
      LET r == upload(store, [filename |-> key, modified |-> ts, body |-> Tree1], pos, retainCfg, fault, TRUE) IN
      /\ Room(key)
      /\ store' = r.store
      /\ last' = [Idle EXCEPT !.op = "upload", !.retain = retainCfg, !.events = r.events, !.deletes = r.deletes, !.exc = r.exc, !.listed = r.listed, !.didList = r.didList, !.key = key]
      /\ UNCHANGED <<retainCfg, dirTree, tmpdirs>>

\* store.download(target, localpath, as_filename)
Download ==
  /\ Ready
  /\ \E target \in {LATEST, "named"}, as_filename \in {<<>>, a_deb, tmpx}, fault \in DownloadFaults, ehc \in Answers :
    LET r == download(store, target, as_filename, fault, ehc) IN
    /\ last' = [Idle EXCEPT !.op = IF target = LATEST THEN "download_latest" ELSE "download", !.events = r.events, !.exc = r.exc, !.fetched = r.fetched, !.written = r.written]
    /\ UNCHANGED <<store, retainCfg, dirTree, tmpdirs>>

\* store._prune_bucket(retain)
PruneBucket ==
  /\ Ready
  /\ \E retain \in Retains, fault \in PruneFaults, ehc \in Answers :
    LET r == _prune_bucket(store, retain, fault, ehc) IN
    /\ store' = r.store
    /\ last' = [Idle EXCEPT !.op = "_prune_bucket", !.retain = retain, !.events = r.events, !.deletes = r.deletes, !.exc = r.exc, !.listed = r.listed, !.didList = r.didList, !.after = AfterPrune(retain)]
    /\ UNCHANGED <<retainCfg, dirTree, tmpdirs>>

\* The call has ended; its summary stays for the next one.
Forget ==
  /\ ~Ready
  /\ last' = [Idle EXCEPT !.op = "idle", !.after = Summary, !.retain = IF Summary \in {"prune", "prune_deleted"} THEN last.retain ELSE None]
  /\ UNCHANGED <<store, retainCfg, dirTree, tmpdirs>>

\* The files of the backed-up directory change between calls.
EditDir ==
  /\ Ready
  /\ \E tree \in Trees :
    /\ tree # dirTree
    /\ dirTree' = tree
    /\ last' = [Idle EXCEPT !.op = "idle"]
    /\ UNCHANGED <<store, retainCfg, tmpdirs>>

\* The handler: backup, restore and prune of one directory.
Next == Backup \/ Restore \/ Prune \/ EditDir \/ Forget

Spec == Init /\ [][Next]_vars

\* The store: upload, download and the retention prune on one bucket.
InitStore ==
  /\ store = <<>>
  /\ retainCfg \in {None} \cup (0..MaxRetain)
  /\ dirTree = Tree1
  /\ tmpdirs = {}
  /\ last = Idle

NextStore == Upload \/ Download \/ PruneBucket \/ Forget

SpecStore == InitStore /\ [][NextStore]_vars

\* ------------------------------------------------------------ properties
Category(objs, p) == {objs[i] : i \in {j \in 1..Len(objs) : Contains(p, objs[j].filename)}}

Patterns == {patterns[i] : i \in 1..Len(patterns)}

Matches(key) == \E p \in Patterns : Contains(p, key)

BatchKeys(i) == {last.deletes[i].keys[k] : k \in 1..Len(last.deletes[i].keys)}

CallsFor(p) == {i \in 1..Len(last.deletes) : last.deletes[i].pat = p}

\* The i-th delete call of the last run went through.
Deleted(i) == i < Len(last.deletes) \/ last.exc = "none"

Min(a, b) == IF a < b THEN a ELSE b

\* The last run was a retention prune that saw a listing.
Pruned == last.op \in {"upload", "_prune_bucket"} /\ last.didList

\* C1: a backup of the directory followed at once by restore succeeds, the
\* file download wrote is the temporary file extract read, and the directory
\* holds the tree that was backed up.
C1_RoundTrip ==
  (last.op = "restore" /\ last.after = "backup" /\ last.exc \notin Transport)
    => (last.exc = "none" /\ last.written = last.read /\ dirTree = last.tree)

\* C2: download of 'backups.latest' on a non-empty store fetches an object
\* whose last-modified time is the greatest in the listing, whatever the
\* listing order.
C2_LatestIsNewest ==
  (last.op = "download_latest" /\ last.exc = "none")
    => \A i \in 1..Len(store) : ObjectAt(store, last.fetched).modified >= store[i].modified

C4_NoCollateralDeletion ==
  /\ [](\A i \in 1..Len(last.deletes) : \A key \in BatchKeys(i) : Matches(key))
  /\ [][\A i \in 1..Len(store) : ~Matches(store[i].filename) => (store[i].filename \in Keys(store') /\ (store[i] \in {store'[k] : k \in 1..Len(store')} \/ (last'.op = "upload" /\ last'.key = store[i].filename)))]_vars

\* C4 witness: a prune deleted objects from a listing that also held an
\* object matching no pattern, and that object is still stored.
C4_Witness ==
  /\ Pruned /\ Len(last.deletes) > 0 /\ last.exc = "none"
  /\ \E j \in 1..Len(last.listed) : ~Matches(last.listed[j].filename) /\ last.listed[j].filename \in Keys(store)

\* C5: download of 'backups.latest' from a prefix whose listing holds no
\* object raises the empty-store EnvironmentError, calls download_file not
\* at all and writes no local file.
C5_EmptyStoreError ==
  (last.op = "download_latest" /\ store = <<>> /\ last.exc # "ClientError")
    => (last.exc = "EnvironmentError" /\ Count(last.events, "download_file") = 0 /\ last.written = <<>>)

\* C6: after a backup call that created its workspace, whether it returned
\* or raised, the workspace directory does not exist.
C6_WorkspaceRemoved ==
  (last.op = "backup" /\ last.created) => (last.ws \notin tmpdirs /\ Count(last.events, "rmtree") = 1)

\* C6 witness: compression failed in a backup that had created its workspace.
C6_Witness ==
  /\ last.op = "backup" /\ last.created /\ last.exc = "IOError"
  /\ Count(last.events, "compress") = 1 /\ Count(last.events, "upload_file") = 0

\* C7: backup, restore and prune each log a start record first and end with
\* exactly one of a success record (the body returned) or an error record
\* naming the class of the exception that then propagates.
C7_Lifecycle ==
  (last.op \in {"backup", "restore", "prune"}) =>
    /\ Len(last.events) >= 2
    /\ last.events[1] = "info_start"
    /\ Count(last.events, "info_start") = 1
    /\ Count(last.events, "info_success") + Count(last.events, "error") = 1
    /\ last.events[Len(last.events)] = (IF last.exc = "none" THEN "info_success" ELSE "error")
    /\ last.exc # "none" => last.logged = last.exc

\* C8 as stated: for any retain value, a prune(retain) that runs right after
\* a prune(retain) deletes nothing: it names no object in a delete call and
\* leaves the store as the first run left it.
C8_AnyRetain ==
  (last.op \in {"prune", "_prune_bucket"} /\ last.after # "")
    => ((\A i \in 1..Len(last.deletes) : BatchKeys(i) = {}) /\ (last.didList => store = last.listed))

\* C8 amended: for any retain >= 0, a prune(retain) that runs right after a
\* prune(retain) deletes nothing: it issues no delete call and leaves the
\* store as the first run left it.
C8_PruneIdempotent ==
  (last.op \in {"prune", "_prune_bucket"} /\ last.after # "" /\ last.retain >= 0)
    => (last.deletes = <<>> /\ Count(last.events, "delete_objects") = 0 /\ (last.didList => store = last.listed))

\* C8 witness: the second of two prunes in a row listed a non-empty store
\* from which the first had deleted.
C8_Witness == last.op = "_prune_bucket" /\ last.after = "prune_deleted" /\ last.retain >= 0 /\ last.didList /\ Len(store) > 0 /\ last.exc = "none"

\* C9: in upload every list and delete call comes after a transfer that
\* succeeded; a store with a retain count lists within the call and, when
\* the call returns, holds at most retain objects per category; a failed
\* transfer or a store without a retain count lists and deletes nothing.
C9_UploadThenPrune ==
  /\ [](last.op = "upload" =>
          /\ \A j \in 1..Len(last.events) : last.events[j] \in {"list_objects", "delete_objects"} => (last.exc # "S3UploadFailedError" /\ \E i \in 1..(j - 1) : last.events[i] = "upload_file")
          /\ (last.exc = "S3UploadFailedError" \/ ~retain_configured(retainCfg)) => (last.deletes = <<>> /\ Count(last.events, "list_objects") = 0 /\ Count(last.events, "delete_objects") = 0)
          /\ (last.exc # "S3UploadFailedError" /\ retain_configured(retainCfg)) => Count(last.events, "list_objects") = 1
          /\ (last.exc = "none" /\ retain_configured(retainCfg)) => \A p \in Patterns : Cardinality(Category(store, p)) <= retainCfg)
  /\ [][(last'.op = "upload" /\ last'.exc = "S3UploadFailedError") => store' = store]_vars
  /\ [][(last'.op = "upload" /\ ~retain_configured(retainCfg)) => Keys(store) \subseteq Keys(store')]_vars

\* C9 witness: an upload on a store with a retain count returned after its
\* prune deleted an object.
C9_Witness == last.op = "upload" /\ retain_configured(retainCfg) /\ last.exc = "none" /\ Len(last.deletes) > 0

\* C10: after a prune with retain >= 1 every category keeps min(retain, its
\* count before) objects, also when a filename contains two patterns.
C10_PerCategorySurvival ==
  (Pruned /\ last.retain >= 1 /\ last.exc = "none")
    => \A p \in Patterns : Cardinality(Category(store, p)) = Min(last.retain, Cardinality(Category(last.listed, p)))

====
